---- MODULE Spec2Model ----
(***************************************************************************)
(* Model of src/src/lib.rs: a command runner that hands a command line to  *)
(* `sh -c`, captures the child's output and classifies the outcome.        *)
(*                                                                         *)
(* The operating system is the environment: what `Command::output()`       *)
(* yields (spawn failure, wait failure, or an exit status with the two     *)
(* captured byte streams) is drawn in Init and stays the same for every    *)
(* call of one behaviour, so that the results of different operations on   *)
(* the same process outcome can be compared.                               *)
(***************************************************************************)
EXTENDS Integers, Sequences, FiniteSets, TLC

\* Bound on the number of bytes the child writes (stdout and stderr together).
MaxLen == 2

\* Bytes the child may write: "\n", "h", and the two bytes of U+00E9
\* (0xC3 0xA9), each of which is invalid UTF-8 on its own.
Bytes == {10, 104, 195, 169}

\* Exit statuses of the child: exit codes 0, 1, 2 and death by signal 9.
ExitStatuses ==
    {[exited |-> TRUE, code |-> c] : c \in {0, 1, 2}}
        \cup {[exited |-> FALSE, code |-> 9]}

\* OS-level error descriptions carried by io::Error.
OsErrors == {"No such file or directory", "Resource temporarily unavailable"}

\* Command names the caller asks about. Whether the shell resolves a name,
\* and the path name it prints for it, is the operating system's part (os).
Commands == {"ls", "invalid-command-xxxxxxxxxxxx"}

BoundedSeq(S, n) == UNION {[1..k -> S] : k \in 0..n}

ByteStrings == BoundedSeq(Bytes, MaxLen)

----------------------------------------------------------------------------
(* String::from_utf8: UTF-8 validation of a byte vector.                   *)

\* Width of the UTF-8 sequence a lead byte announces, 0 for a byte that
\* cannot start a sequence.
Utf8CharWidth(b) ==
    IF b < 128 THEN 1
    ELSE IF b \in 194..223 THEN 2
    ELSE IF b \in 224..239 THEN 3
    ELSE IF b \in 240..244 THEN 4
    ELSE 0

\* The range the second byte of a sequence must lie in, given its lead byte.
SecondByteRange(lead) ==
    IF lead = 224 THEN 160..191
    ELSE IF lead = 237 THEN 128..159
    ELSE IF lead = 240 THEN 144..191
    ELSE IF lead = 244 THEN 128..143
    ELSE 128..191

\* Whether a well-formed sequence starts at position i + 1 of bytes.
WellFormedAt(bytes, i) ==
    LET w == Utf8CharWidth(bytes[i + 1])
    IN  /\ w > 0
        /\ i + w <= Len(bytes)
        /\ w >= 2 => bytes[i + 2] \in SecondByteRange(bytes[i + 1])
        /\ \A k \in 3..w : bytes[i + k] \in 128..191

\* Utf8Error::valid_up_to: the length of the longest valid prefix, scanning
\* from position i.
RECURSIVE valid_up_to(_, _)
valid_up_to(bytes, i) ==
    IF i >= Len(bytes) THEN Len(bytes)
    ELSE IF WellFormedAt(bytes, i)
         THEN valid_up_to(bytes, i + Utf8CharWidth(bytes[i + 1]))
         ELSE i

IsUtf8(bytes) == valid_up_to(bytes, 0) = Len(bytes)

----------------------------------------------------------------------------
(* The value types of lib.rs.                                              *)

Ok(v)  == [tag |-> "Ok", val |-> v]
Err(e) == [tag |-> "Err", err |-> e]

\* enum Errors
FromUtf8(bytes) ==
    [variant |-> "FromUtf8", text |-> bytes, index |-> valid_up_to(bytes, 0),
     os |-> ""]
IO(desc)    == [variant |-> "IO", text |-> <<>>, index |-> 0, os |-> desc]
Custom(s)   == [variant |-> "Custom", text |-> s, index |-> 0, os |-> ""]
STDERR(s)   == [variant |-> "STDERR", text |-> s, index |-> 0, os |-> ""]

\* struct CommandOutput(String, u8)
CommandOutput(s, code) == [output |-> s, exit_code |-> code]

\* One line written to the diagnostic stream (the caller's stderr).
Line(kind, text, index, os) ==
    [kind |-> kind, text |-> text, index |-> index, os |-> os]

\* impl fmt::Display for Errors
fmt(e) ==
    IF e.variant = "FromUtf8"
    THEN Line("invalid utf-8 sequence from index", <<>>, e.index, "")
    ELSE IF e.variant = "IO" THEN Line("io", <<>>, 0, e.os)
    ELSE Line("ERROR: {})", e.text, 0, "")

\* eprintln!("{}", s) of a String
TextLine(s) == Line("{}", s, 0, "")

\* std::process::Output as Command::output() returns it.
Captured(status, out, err) ==
    [tag |-> "Ok", status |-> status, stdout |-> out, stderr |-> err, os |-> ""]
IoFailure(desc) ==
    [tag |-> "Err", status |-> [exited |-> FALSE, code |-> 0],
     stdout |-> <<>>, stderr |-> <<>>, os |-> desc]

\* ExitStatus::success
success(status) == status.exited /\ status.code = 0

----------------------------------------------------------------------------
(* The public operations, as functions of what Command::output() yields.   *)

\* Variants of execute_command with one slip each, used to test the
\* properties below: the failure branch reads stdout; both streams are
\* decoded whatever the status; a failed exit is returned as an error; the
\* child's own exit code is stored.
execute_command_reads_stdout(out) ==
    IF out.tag = "Ok"
    THEN IF ~success(out.status)
         THEN IF IsUtf8(out.stdout)
              THEN Ok(CommandOutput(out.stdout, 1))
              ELSE Err(FromUtf8(out.stdout))
         ELSE IF IsUtf8(out.stdout)
              THEN Ok(CommandOutput(out.stdout, 0))
              ELSE Err(FromUtf8(out.stdout))
    ELSE Err(IO(out.os))

execute_command_decodes_both(out) ==
    IF out.tag = "Ok"
    THEN IF ~IsUtf8(out.stderr) THEN Err(FromUtf8(out.stderr))
         ELSE IF ~IsUtf8(out.stdout) THEN Err(FromUtf8(out.stdout))
         ELSE IF ~success(out.status)
              THEN Ok(CommandOutput(out.stderr, 1))
              ELSE Ok(CommandOutput(out.stdout, 0))
    ELSE Err(IO(out.os))

execute_command_failure_is_err(out) ==
    IF out.tag = "Ok"
    THEN IF ~success(out.status)
         THEN IF IsUtf8(out.stderr)
              THEN Err(STDERR(out.stderr))
              ELSE Err(FromUtf8(out.stderr))
         ELSE IF IsUtf8(out.stdout)
              THEN Ok(CommandOutput(out.stdout, 0))
              ELSE Err(FromUtf8(out.stdout))
    ELSE Err(IO(out.os))

execute_command_keeps_code(out) ==
    IF out.tag = "Ok"
    THEN IF ~success(out.status)
         THEN IF IsUtf8(out.stderr)
              THEN Ok(CommandOutput(out.stderr,
                                    IF out.status.exited THEN out.status.code ELSE 1))
              ELSE Err(FromUtf8(out.stderr))
         ELSE IF IsUtf8(out.stdout)
              THEN Ok(CommandOutput(out.stdout, 0))
              ELSE Err(FromUtf8(out.stdout))
    ELSE Err(IO(out.os))

\* pub fn execute_command
execute_command(out) ==
    IF out.tag = "Ok"
    THEN IF ~success(out.status)
         THEN IF IsUtf8(out.stderr)
              THEN Ok(CommandOutput(out.stderr, 1))
              ELSE Err(FromUtf8(out.stderr))
         ELSE IF IsUtf8(out.stdout)
              THEN Ok(CommandOutput(out.stdout, 0))
              ELSE Err(FromUtf8(out.stdout))
    ELSE Err(IO(out.os))

\* Variants of sh with one slip each: the text is trimmed of a trailing
\* newline; an error of the primitive is rewrapped as Errors::STDERR.
sh_trims(out) ==
    LET output == execute_command(out)
    IN  IF output.tag = "Ok"
        THEN LET s == output.val.output
                 content == IF Len(s) > 0 /\ s[Len(s)] = 10
                            THEN SubSeq(s, 1, Len(s) - 1)
                            ELSE s
             IN  IF output.val.exit_code = 1
                 THEN Err(STDERR(content))
                 ELSE Ok(content)
        ELSE Err(output.err)

sh_rewraps(out) ==
    LET output == execute_command(out)
    IN  IF output.tag = "Ok"
        THEN LET content == output.val.output
             IN  IF output.val.exit_code = 1
                 THEN Err(STDERR(content))
                 ELSE Ok(content)
        ELSE Err(STDERR(output.err.text))

\* pub fn sh
sh(out) ==
    LET output == execute_command(out)
    IN  IF output.tag = "Ok"
        THEN LET content == output.val.output
             IN  IF output.val.exit_code = 1
                 THEN Err(STDERR(content))
                 ELSE Ok(content)
        ELSE Err(output.err)

\* Variants of execute_command_silent with one slip each: the flag is
\* ignored; `return false` sits inside the `if log_stderr` block.
execute_command_silent_always_logs(out, log_stderr) ==
    LET output == execute_command(out)
    IN  IF output.tag = "Ok"
        THEN IF output.val.exit_code > 0
             THEN [ret |-> FALSE, diag |-> <<TextLine(output.val.output)>>]
             ELSE [ret |-> TRUE, diag |-> <<>>]
        ELSE [ret |-> FALSE, diag |-> <<fmt(output.err)>>]

execute_command_silent_falls_through(out, log_stderr) ==
    LET output == execute_command(out)
    IN  IF output.tag = "Ok"
        THEN IF output.val.exit_code > 0 /\ log_stderr
             THEN [ret |-> FALSE, diag |-> <<TextLine(output.val.output)>>]
             ELSE [ret |-> TRUE, diag |-> <<>>]
        ELSE [ret |-> FALSE, diag |-> <<fmt(output.err)>>]

\* pub fn execute_command_silent: the boolean returned and the lines written
\* to the diagnostic stream.
execute_command_silent(out, log_stderr) ==
    LET output == execute_command(out)
    IN  IF output.tag = "Ok"
        THEN IF output.val.exit_code > 0
             THEN [ret  |-> FALSE,
                   diag |-> IF log_stderr
                            THEN <<TextLine(output.val.output)>>
                            ELSE <<>>]
             ELSE [ret |-> TRUE, diag |-> <<>>]
        ELSE [ret |-> FALSE, diag |-> <<fmt(output.err)>>]

\* A variant of command_exists that asks for logging.
command_exists_logs(command) ==
    [line |-> "command -v " \o command, log_stderr |-> TRUE]

\* pub fn command_exists: the arguments it hands to execute_command_silent.
command_exists(command) ==
    [line |-> "command -v " \o command, log_stderr |-> FALSE]

\* The argument vector of the child: Command::new("sh").arg("-c").arg(line)
ShellArgv(line) == <<"sh", "-c", line>>

----------------------------------------------------------------------------
(* The state machine: one call at a time, each call blocking in            *)
(* Command::output() while the operating system spawns and reaps the child.*)

VARIABLES
    command,       \* the command name the caller asks about
    command_line,  \* the command line the caller runs
    os,            \* what the operating system does with a spawned shell
    pc,            \* "idle", or where the current call stands
    cur,           \* the current call: signature, log_stderr, line for the shell
    spawns,        \* spawn attempts made by the current call
    child,         \* the current call's child process
    argv,          \* the argument vector of the last spawn attempt
    out,           \* what Command::output() yielded to the current call
    results        \* per call signature, the finished call's record

vars == <<command, command_line, os, pc, cur, spawns, child, argv, out, results>>

\* The call signatures: function and log_stderr flag.
Sig(f, log) == [f |-> f, log |-> log]

Calls ==
    {Sig("execute_command", FALSE), Sig("sh", FALSE),
     Sig("execute_command_silent", TRUE), Sig("execute_command_silent", FALSE),
     Sig("command_exists", FALSE)}

CommandLines(c) == {"echo hello", "command -v " \o c}

\* The outcomes the operating system can produce for one spawn of the shell.
Outcomes ==
    {[fails |-> "none", desc |-> "", status |-> st,
      stdout |-> p[1], stderr |-> p[2]] :
        st \in ExitStatuses,
        p \in {q \in ByteStrings \X ByteStrings : Len(q[1]) + Len(q[2]) <= MaxLen}}
    \cup
    {[fails |-> k, desc |-> d, status |-> [exited |-> FALSE, code |-> 0],
      stdout |-> <<>>, stderr |-> <<>>] :
        k \in {"spawn", "wait"}, d \in OsErrors}

NoCall == [sig |-> Sig("", FALSE), log_stderr |-> FALSE, line |-> ""]

NoOutput == IoFailure("")

NotCalled ==
    [done |-> FALSE, line |-> "", ret |-> FALSE, diag |-> <<>>,
     spawns |-> 0, child |-> "none", argv |-> <<>>]

Init ==
    /\ command \in Commands
    /\ command_line \in CommandLines(command)
    /\ os \in Outcomes
    /\ pc = "idle"
    /\ cur = NoCall
    /\ spawns = 0
    /\ child = "none"
    /\ argv = <<>>
    /\ out = NoOutput
    /\ results = [c \in Calls |-> NotCalled]

\* A call is entered and runs up to Command::output().
Enter(sig, log_stderr, line) ==
    /\ pc = "idle"
    /\ ~results[sig].done
    /\ pc' = "spawn"
    /\ cur' = [sig |-> sig, log_stderr |-> log_stderr, line |-> line]
    /\ spawns' = 0
    /\ child' = "none"
    /\ argv' = <<>>
    /\ out' = NoOutput
    /\ UNCHANGED <<command, command_line, os, results>>

CallExecuteCommand ==
    Enter(Sig("execute_command", FALSE), FALSE, command_line)

CallSh == Enter(Sig("sh", FALSE), FALSE, command_line)

CallExecuteCommandSilent ==
    \E log_stderr \in BOOLEAN :
        Enter(Sig("execute_command_silent", log_stderr), log_stderr,
              command_line)

CallCommandExists ==
    LET a == command_exists(command)
    IN  Enter(Sig("command_exists", FALSE), a.log_stderr, a.line)

\* Command::output(): the shell is spawned.
SpawnOk ==
    /\ pc = "spawn"
    /\ os.fails # "spawn"
    /\ spawns' = spawns + 1
    /\ argv' = ShellArgv(cur.line)
    /\ child' = "running"
    /\ pc' = "wait"
    /\ UNCHANGED <<command, command_line, os, cur, out, results>>

\* A variant of SpawnErr that tries the spawn a second time before giving up.
SpawnErrRetries ==
    /\ pc = "spawn"
    /\ os.fails = "spawn"
    /\ spawns < 2
    /\ spawns' = spawns + 1
    /\ argv' = ShellArgv(cur.line)
    /\ IF spawns = 0
       THEN UNCHANGED <<out, pc>>
       ELSE out' = IoFailure(os.desc) /\ pc' = "ready"
    /\ UNCHANGED <<command, command_line, os, cur, child, results>>

\* Command::output(): the shell cannot be spawned.
SpawnErr ==
    /\ pc = "spawn"
    /\ os.fails = "spawn"
    /\ spawns' = spawns + 1
    /\ argv' = ShellArgv(cur.line)
    /\ out' = IoFailure(os.desc)
    /\ pc' = "ready"
    /\ UNCHANGED <<command, command_line, os, cur, child, results>>

\* Command::output(): the child has terminated and its output is captured.
WaitOk ==
    /\ pc = "wait"
    /\ os.fails # "wait"
    /\ child' = "reaped"
    /\ out' = Captured(os.status, os.stdout, os.stderr)
    /\ pc' = "ready"
    /\ UNCHANGED <<command, command_line, os, cur, spawns, argv, results>>

\* Command::output(): reading the pipes or waiting for the child fails.
WaitErr ==
    /\ pc = "wait"
    /\ os.fails = "wait"
    /\ out' = IoFailure(os.desc)
    /\ pc' = "ready"
    /\ UNCHANGED <<command, command_line, os, cur, spawns, child, argv, results>>

\* The call's record once it returns ret, having written diag.
Finished(ret, diag) ==
    [done |-> TRUE, line |-> cur.line, ret |-> ret, diag |-> diag,
     spawns |-> spawns, child |-> child, argv |-> argv]

Return(f, ret, diag) ==
    /\ pc = "ready"
    /\ cur.sig.f = f
    /\ results' = [results EXCEPT ![cur.sig] = Finished(ret, diag)]
    /\ pc' = "idle"
    /\ cur' = NoCall
    /\ UNCHANGED <<command, command_line, os, spawns, child, argv, out>>

ReturnExecuteCommand == Return("execute_command", execute_command(out), <<>>)

ReturnSh == Return("sh", sh(out), <<>>)

ReturnExecuteCommandSilent ==
    LET r == execute_command_silent(out, cur.log_stderr)
    IN  Return("execute_command_silent", r.ret, r.diag)

ReturnCommandExists ==
    LET r == execute_command_silent(out, cur.log_stderr)
    IN  Return("command_exists", r.ret, r.diag)

Next ==
    \/ CallExecuteCommand
    \/ CallSh
    \/ CallExecuteCommandSilent
    \/ CallCommandExists
    \/ SpawnOk
    \/ SpawnErr
    \/ WaitOk
    \/ WaitErr
    \/ ReturnExecuteCommand
    \/ ReturnSh
    \/ ReturnExecuteCommandSilent
    \/ ReturnCommandExists

Spec == Init /\ [][Next]_vars

----------------------------------------------------------------------------
(* Vocabulary of the properties.                                           *)

\* The finished call of f with flag log.
R(f, log) == results[Sig(f, log)]

Primitive == R("execute_command", FALSE)
Propagating == R("sh", FALSE)
Silent(log) == R("execute_command_silent", log)
Exists == R("command_exists", FALSE)

\* The shell was spawned and awaited, and exited with / without success.
Exited == os.fails = "none"
ExitSuccess == Exited /\ success(os.status)
ExitFailure == Exited /\ ~success(os.status)

\* The shell exited with a non-zero exit code (it was not killed by a signal).
ExitNonZero == Exited /\ os.status.exited /\ os.status.code # 0

\* The stream the exit status selects.
Selected == IF success(os.status) THEN os.stdout ELSE os.stderr

IsErr(r, variant) == r.tag = "Err" /\ r.err.variant = variant

\* No line of diag is a command's own text.
NoCommandText(diag) == \A i \in 1..Len(diag) : diag[i].kind # "{}"

----------------------------------------------------------------------------
\* C1: when the shell exits with success and its stdout is valid UTF-8, sh
\* returns Ok with exactly the captured stdout bytes and
\* execute_command_silent returns true for both values of log_stderr.
C1_SuccessReturnsStdout ==
    (ExitSuccess /\ IsUtf8(os.stdout)) =>
        /\ Propagating.done => Propagating.ret = Ok(os.stdout)
        /\ \A log \in BOOLEAN : Silent(log).done => Silent(log).ret = TRUE

C1_Witness ==
    /\ ExitSuccess /\ IsUtf8(os.stdout)
    /\ os.stdout = <<10>> /\ os.stderr # <<>>
    /\ Propagating.done /\ Silent(TRUE).done /\ Silent(FALSE).done

\* C2 as stated: whenever the shell exits non-zero, sh returns
\* Errors::STDERR carrying the stderr text and execute_command_silent
\* returns false.
C2_FailureIsAlwaysSTDERR ==
    ExitNonZero =>
        /\ Propagating.done =>
              /\ IsErr(Propagating.ret, "STDERR")
              /\ Propagating.ret.err.text = os.stderr
        /\ \A log \in BOOLEAN : Silent(log).done => Silent(log).ret = FALSE

\* C2 amended: when the shell exits non-zero (or is killed by a signal), sh
\* returns Errors::STDERR carrying exactly the stderr bytes if stderr is
\* valid UTF-8 and Errors::FromUtf8 if it is not; execute_command_silent
\* returns false in both cases.
C2_FailureIsSTDERROrFromUtf8 ==
    ExitFailure =>
        /\ Propagating.done =>
              IF IsUtf8(os.stderr)
              THEN Propagating.ret = Err(STDERR(os.stderr))
              ELSE IsErr(Propagating.ret, "FromUtf8")
        /\ \A log \in BOOLEAN : Silent(log).done => Silent(log).ret = FALSE

C2_Witness ==
    /\ ExitFailure /\ os.status.code = 2
    /\ os.stderr = <<104>> /\ os.stdout = <<10>>
    /\ Propagating.done /\ Silent(TRUE).done /\ Silent(FALSE).done

\* C3 as stated: for a spawned and awaited shell, execute_command returns
\* Errors::FromUtf8 exactly when the captured output (either stream) is not
\* valid UTF-8.
C3_DecodingFailureIffAnyStreamInvalid ==
    (Exited /\ Primitive.done) =>
        (IsErr(Primitive.ret, "FromUtf8")
            <=> (~IsUtf8(os.stdout) \/ ~IsUtf8(os.stderr)))

\* C3 amended: execute_command returns Errors::FromUtf8 exactly when the
\* shell was spawned and awaited and the stream its exit status selects
\* (stdout on success, stderr otherwise) is not valid UTF-8.
C3_DecodingFailureIffSelectedInvalid ==
    Primitive.done =>
        (IsErr(Primitive.ret, "FromUtf8") <=> (Exited /\ ~IsUtf8(Selected)))

C3_Witness ==
    /\ ExitFailure /\ ~IsUtf8(os.stderr) /\ IsUtf8(os.stdout)
    /\ Primitive.done /\ IsErr(Primitive.ret, "FromUtf8")

C5_SilentIsBoolean ==
    /\ \A log \in BOOLEAN :
          Silent(log).done =>
              /\ Silent(log).ret \in BOOLEAN
              /\ Silent(log).ret = (Exited /\ success(os.status) /\ IsUtf8(os.stdout))
              /\ Primitive.done =>
                    (Silent(log).ret
                        <=> (Primitive.ret.tag = "Ok"
                                /\ Primitive.ret.val.exit_code = 0))
    /\ (Silent(TRUE).done /\ Silent(FALSE).done) =>
          Silent(TRUE).ret = Silent(FALSE).ret

C5_Witness ==
    /\ Silent(TRUE).done /\ Silent(FALSE).done /\ Primitive.done
    /\ Primitive.ret.tag = "Ok" /\ Primitive.ret.val.exit_code = 1
    /\ ~Silent(FALSE).ret

\* C6: an error of execute_command (Errors::IO, Errors::FromUtf8) is the
\* error sh returns, variant and payload unchanged; sh returns
\* Errors::STDERR only when execute_command returns Ok with a failure status.
C6_ErrorsPropagateUnchanged ==
    /\ (Primitive.done /\ Propagating.done) =>
          /\ Primitive.ret.tag = "Err" =>
                /\ Propagating.ret.tag = "Err"
                /\ Propagating.ret.err = Primitive.ret.err
          /\ IsErr(Propagating.ret, "STDERR") =>
                /\ Primitive.ret.tag = "Ok"
                /\ Primitive.ret.val.exit_code = 1
    /\ Propagating.done =>
          /\ ~Exited => Propagating.ret = Err(IO(os.desc))
          /\ (Exited /\ ~IsUtf8(Selected)) =>
                /\ IsErr(Propagating.ret, "FromUtf8")
                /\ Propagating.ret.err.text = Selected
          /\ IsErr(Propagating.ret, "STDERR") => ExitFailure

C6_Witness ==
    /\ Primitive.done /\ Propagating.done
    /\ IsErr(Primitive.ret, "FromUtf8") /\ ExitSuccess
    /\ Propagating.ret = Primitive.ret

ExistsDelegates ==
    /\ Exists.line = "command -v " \o command
    /\ Exists.argv = <<"sh", "-c", "command -v " \o command>>
    /\ (Silent(FALSE).done /\ Silent(FALSE).line = Exists.line) =>
          /\ Exists.ret = Silent(FALSE).ret
          /\ Exists.diag = Silent(FALSE).diag
    /\ ExitFailure => (Exists.ret = FALSE /\ NoCommandText(Exists.diag))

\* C8 as stated: command_exists delegates to execute_command_silent, is false
\* for a name the shell cannot resolve and true for a name the shell resolves.
C8_ExistsIffShellResolves ==
    Exists.done =>
        /\ ExistsDelegates
        /\ ExitSuccess => Exists.ret = TRUE

\* C8 amended: as stated, except that for a name the shell resolves
\* command_exists is true only if the shell's stdout is valid UTF-8; if it
\* is not, command_exists is false and the decoding error is written.
C8_ExistsIffShellResolvesInUtf8 ==
    Exists.done =>
        /\ ExistsDelegates
        /\ ExitSuccess =>
              IF IsUtf8(os.stdout)
              THEN Exists.ret = TRUE /\ Exists.diag = <<>>
              ELSE /\ Exists.ret = FALSE
                   /\ Exists.diag = <<fmt(FromUtf8(os.stdout))>>

C8_Witness ==
    /\ Exists.done /\ Silent(FALSE).done /\ Silent(FALSE).line = Exists.line
    /\ command = "invalid-command-xxxxxxxxxxxx"
    /\ ExitFailure /\ os.stderr = <<104, 10>>
    /\ Exists.ret = FALSE /\ Exists.diag = <<>>

\* C9: a call makes exactly one spawn attempt, of `sh -c <line>`, and returns
\* only after it; when the shell was spawned and awaited (success, non-zero
\* exit, decoding failure) the call returns after the child was reaped, and
\* after a spawn failure there is no child and no second attempt.
C9_OneSpawnPerCall ==
    /\ spawns <= 1
    /\ pc \in {"wait", "ready"} => spawns = 1
    /\ \A c \in Calls :
          results[c].done =>
              /\ results[c].spawns = 1
              /\ results[c].argv = <<"sh", "-c", results[c].line>>
              /\ os.fails = "none" => results[c].child = "reaped"
              /\ os.fails = "spawn" => results[c].child = "none"

C9_Witness ==
    /\ \A c \in Calls : results[c].done /\ results[c].child = "reaped"
    /\ ExitFailure /\ ~IsUtf8(os.stderr)

\* C10: the exit_code of a CommandOutput is 0 or 1, sh returns Ok exactly
\* when execute_command_silent returns true, and no Errors::Custom is made.
C10_ExitCodeCollapsed ==
    /\ (Primitive.done /\ Primitive.ret.tag = "Ok") =>
          Primitive.ret.val.exit_code \in {0, 1}
    /\ \A log \in BOOLEAN :
          (Propagating.done /\ Silent(log).done) =>
              (Propagating.ret.tag = "Ok" <=> Silent(log).ret)
    /\ Primitive.done => ~IsErr(Primitive.ret, "Custom")
    /\ Propagating.done => ~IsErr(Propagating.ret, "Custom")

C10_Witness ==
    /\ Primitive.done /\ Propagating.done
    /\ Silent(TRUE).done /\ Silent(FALSE).done
    /\ Exited /\ os.status.exited /\ os.status.code = 2
    /\ Primitive.ret.tag = "Ok" /\ IsErr(Propagating.ret, "STDERR")

====
